---- MODULE Spec2Model ----
(***************************************************************************)
(* Model of BootstrapLossLayer (src/caffe/layers/bootstrap_loss_layer.cpp) *)
(* LayerSetUp, Reshape, Forward_cpu and Backward_cpu over flat buffers.    *)
(*                                                                         *)
(* Dtype values are exact rationals <<n, d>> (d > 0, lowest terms) plus    *)
(* the IEEE-754 specials the divisions of lines 100 and 148 can produce:   *)
(* <<0,0>> is NaN, <<1,0>> is +inf, <<-1,0>> is -inf.  Rounding of finite  *)
(* results is not modelled, and the sign of zero is not modelled.          *)
(***************************************************************************)
EXTENDS Integers, Naturals, Sequences, FiniteSets, TLC

\* ---------------------------------------------------------------- bounds
\* largest bottom[0]->count() explored
MaxCount == 4
\* largest number of cells read or written past the end of a buffer
MaxOverrun == 2
\* probabilities are multiples of 1/PUnit
PUnit == 2

\* ---------------------------------------------------------- Dtype values
NaN == <<0, 0>>
PosInf == <<1, 0>>
NegInf == <<-1, 0>>

Abs(n) == IF n < 0 THEN -n ELSE n
Sgn(n) == IF n < 0 THEN -1 ELSE IF n = 0 THEN 0 ELSE 1

RECURSIVE GCD(_, _)
GCD(a, b) == IF b = 0 THEN a ELSE GCD(b, a % b)

\* the finite value n/d, d > 0, in lowest terms
Fin(n, d) == LET g == GCD(Abs(n), d) IN <<n \div g, d \div g>>

\* int -> Dtype conversion
FromInt(n) == <<n, 1>>

IsNaN(x) == x = NaN
IsInf(x) == x[2] = 0 /\ x[1] # 0
IsZero(x) == x[2] > 0 /\ x[1] = 0

\* IEEE-754 addition
FAdd(x, y) ==
  IF IsNaN(x) \/ IsNaN(y) THEN NaN
  ELSE IF IsInf(x) /\ IsInf(y) THEN (IF x = y THEN x ELSE NaN)
  ELSE IF IsInf(x) THEN x
  ELSE IF IsInf(y) THEN y
  ELSE Fin(x[1] * y[2] + y[1] * x[2], x[2] * y[2])

FNeg(x) == <<-x[1], x[2]>>

\* IEEE-754 subtraction
FSub(x, y) == FAdd(x, FNeg(y))

\* IEEE-754 multiplication: 0 * inf is NaN
FMul(x, y) ==
  IF IsNaN(x) \/ IsNaN(y) THEN NaN
  ELSE IF IsInf(x) \/ IsInf(y)
       THEN (IF IsZero(x) \/ IsZero(y) THEN NaN
             ELSE <<Sgn(x[1]) * Sgn(y[1]), 0>>)
  ELSE Fin(x[1] * y[1], x[2] * y[2])

\* IEEE-754 division: 0/0 is NaN, x/0 is an infinity
FDiv(x, y) ==
  IF IsNaN(x) \/ IsNaN(y) THEN NaN
  ELSE IF IsInf(x) THEN (IF IsInf(y) THEN NaN
                         ELSE <<x[1] * (IF y[1] < 0 THEN -1 ELSE 1), 0>>)
  ELSE IF IsInf(y) THEN FromInt(0)
  ELSE IF IsZero(y) THEN (IF IsZero(x) THEN NaN ELSE <<Sgn(x[1]), 0>>)
  ELSE Fin(x[1] * y[2] * Sgn(y[1]), x[2] * Abs(y[1]))

\* std::max(a, b) == (a < b) ? b : a
FLess(x, y) ==
  IF IsNaN(x) \/ IsNaN(y) THEN FALSE
  ELSE IF IsInf(x) THEN x = NegInf /\ y # NegInf
  ELSE IF IsInf(y) THEN y = PosInf
  ELSE x[1] * y[2] < y[1] * x[2]

\* natural logarithms of 1..8 in thousandths
LnMilli == <<0, 693, 1099, 1386, 1609, 1792, 1946, 2079>>

\* log(std::max(p, Dtype(FLT_MIN))) in thousandths, for a probability p = n/d
\* with n, d <= 8; log(FLT_MIN) = -87.336
LogMax(p) ==
  IF p[1] = 0 THEN Fin(-87336, 1000)
  ELSE Fin(LnMilli[p[1]] - LnMilli[p[2]], 1000)

\* bool -> Dtype conversion of (k == label)
Ind(b) == IF b THEN FromInt(1) ELSE FromInt(0)

One == FromInt(1)
Zero == FromInt(0)
\* ------------------------------------------------------------- input sets
\* bootstrap_param().beta(): both endpoints and an interior value
BetaValues == {Zero, Fin(1, 2), One}
\* loss_param().ignore_label(): a value outside and a value inside the classes
IgnoreLabels == {-1, 0}
\* top[0]->cpu_diff()[0], the incoming loss weight
LossWeights == {One, FromInt(2)}
\* number of axes of bottom[0]
AxisCounts == {1, 2, 3}

RECURSIVE Product(_, _, _)
\* Blob::count(start, end): product of shape[start+1 .. end] (axes are 0-based)
Product(shape, start, end) ==
  IF start >= end THEN 1 ELSE shape[start + 1] * Product(shape, start + 1, end)

Shapes ==
  {s \in UNION {[1..n -> 1..MaxCount] : n \in AxisCounts} :
     Product(s, 0, Len(s)) <= MaxCount}

\* Blob::CanonicalAxisIndex: a negative axis counts from the end
CanonicalAxisIndex(shape, axis) == IF axis < 0 THEN axis + Len(shape) ELSE axis

\* Blob::shape(index), 0-based
ShapeAt(shape, index) == shape[index + 1]

\* Blob::channels() == LegacyShape(1): the extent of axis 1, or 1 when the
\* blob has fewer than two axes
Channels(shape) == IF Len(shape) >= 2 THEN shape[2] ELSE 1

\* cells past the end of the buffer that a class loop bounded by channels()
\* reaches when channels() exceeds shape(softmax_axis)
Overrun(shape, axis) ==
  LET over == Channels(shape) - ShapeAt(shape, axis)
  IN IF over > 0 THEN over * Product(shape, axis + 1, Len(shape)) ELSE 0

\* ------------------------------------------------------------------ state
VARIABLES
  pc,                 \* "constructed", "setup", "reshaped", "forward_done",
                      \* "backward_done", "fatal"
  has_ignore_label_, ignore_label_, normalize_, is_hard_mode_, beta_,
  softmax_axis_, outer_num_, inner_num_,
  bottom_shape,       \* bottom[0]->shape()
  label_count,        \* bottom[1]->count()
  prob_,              \* prob_.cpu_data(), followed by the cells past its end
  p_label_,           \* p_label_.cpu_data()
  n_label,            \* bottom[1]->cpu_data()
  top_loss,           \* top[0]->cpu_data()[0]
  bottom_diff,        \* bottom[0]->cpu_diff()
  oob_writes,         \* indices past the end of bottom_diff that were written
  propagate_down,     \* the flags of the last Backward_cpu call
  loss_weight,        \* the local of line 146
  fwd_loss,           \* the local `loss` of line 77 when the loops end
  fwd_count, bwd_count,   \* the locals `count` of lines 76 and 123
  fwd_trace, bwd_trace    \* flat indices accessed by the class loops, in order

config == <<has_ignore_label_, ignore_label_, normalize_, is_hard_mode_, beta_>>
geometry == <<softmax_axis_, outer_num_, inner_num_, bottom_shape, label_count>>
fwd_data == <<prob_, p_label_, n_label, top_loss, fwd_loss, fwd_count, fwd_trace>>
bwd_data == <<bottom_diff, oob_writes, propagate_down, loss_weight, bwd_count,
              bwd_trace>>
vars == <<pc, config, geometry, fwd_data, bwd_data>>

\* bottom[0]->shape(softmax_axis_), the number of classes
NumClasses == ShapeAt(bottom_shape, softmax_axis_)
\* prob_.count()
ProbCount == Product(bottom_shape, 0, Len(bottom_shape))
\* int dim = prob_.count() / outer_num_
Dim == ProbCount \div outer_num_
\* flat index of (i, k, j)
Index(i, k, j) == i * Dim + k * inner_num_ + j

Init ==
  /\ pc = "constructed"
  /\ has_ignore_label_ = FALSE /\ ignore_label_ = 0
  /\ normalize_ = FALSE /\ is_hard_mode_ = FALSE /\ beta_ = Zero
  /\ softmax_axis_ = 0 /\ outer_num_ = 0 /\ inner_num_ = 0
  /\ bottom_shape = <<>> /\ label_count = 0
  /\ prob_ = <<>> /\ p_label_ = <<>> /\ n_label = <<>>
  /\ top_loss = Zero
  /\ bottom_diff = <<>> /\ oob_writes = {}
  /\ propagate_down = <<FALSE, FALSE>> /\ loss_weight = Zero
  /\ fwd_loss = Zero /\ fwd_count = 0 /\ bwd_count = 0
  /\ fwd_trace = <<>> /\ bwd_trace = <<>>

\* lines 13-43.  ignore_label_ is assigned only when the parameter is present;
\* otherwise the member keeps the value it had, which no line reads
LayerSetUp ==
  /\ pc = "constructed"
  /\ \E has \in BOOLEAN, ign \in IgnoreLabels, norm \in BOOLEAN,
        hard \in BOOLEAN, b \in BetaValues :
       /\ has_ignore_label_' = has
       /\ ignore_label_' = IF has THEN ign ELSE ignore_label_
       /\ normalize_' = norm
       /\ is_hard_mode_' = hard
       /\ beta_' = b
  /\ pc' = "setup"
  /\ UNCHANGED <<geometry, fwd_data, bwd_data>>

\* lines 46-64 for bottom[0] shapes drawn from `shapes`; bottom[0] arrives with
\* a zero-filled diff.  top[1], when present,
\* is reshaped like bottom[0] and made an alias of prob_ by Forward_cpu
\* (ShareData): it has no storage of its own
ReshapeOf(shapes) ==
  /\ pc = "setup"
  /\ \E shape \in shapes :
     \E axis \in (-Len(shape))..(Len(shape) - 1), labels \in 1..MaxCount :
       LET a == CanonicalAxisIndex(shape, axis)
           outer == Product(shape, 0, a)
           inner == Product(shape, a + 1, Len(shape))
       IN /\ Overrun(shape, a) <= MaxOverrun
          /\ bottom_shape' = shape
          /\ label_count' = labels
          /\ softmax_axis_' = a
          /\ outer_num_' = outer
          /\ inner_num_' = inner
          /\ bottom_diff' = [x \in 0..(Product(shape, 0, Len(shape)) - 1) |-> Zero]
          /\ pc' = IF outer * inner = labels THEN "reshaped" ELSE "fatal"
  /\ UNCHANGED <<config, fwd_data, oob_writes, propagate_down, loss_weight,
                 bwd_count, bwd_trace>>

Reshape == ReshapeOf(Shapes)

\* the smallest shape whose class loop (bounded by channels() = 3) runs from
\* one position into the in-buffer cells of the next (softmax axis 2)
WideShapes == {<<1, 3, 2>>}

ReshapeWide == ReshapeOf(WideShapes)

\* ------------------------------------------------------ forward pass inputs
\* positions s = i * inner_num_ + j, in loop order
Positions == 0..(outer_num_ * inner_num_ - 1)
PosI(s) == s \div inner_num_
PosJ(s) == s % inner_num_

RECURSIVE SumTo(_, _)
\* f[0] + ... + f[n-1] over integers
SumTo(f, n) == IF n = 0 THEN 0 ELSE f[n - 1] + SumTo(f, n - 1)

\* Softmax contract: one distribution over the classes, in units of 1/PUnit
ProbRows ==
  {r \in [0..(NumClasses - 1) -> 0..PUnit] : SumTo(r, NumClasses) = PUnit}

\* the probability buffer holding rows[s] at position s, followed by the
\* cells `tail` past its end
ProbBuffer(rows, tail) ==
  [x \in 0..(ProbCount + Overrun(bottom_shape, softmax_axis_) - 1) |->
     IF x < ProbCount
     THEN LET i == x \div Dim
              k == (x % Dim) \div inner_num_
              j == x % inner_num_
          IN Fin(rows[i * inner_num_ + j][k], PUnit)
     ELSE Fin(tail[x], PUnit)]

\* ArgMax contract (top_k = 1): the lowest class index of maximal probability
ArgMax(mem, s) ==
  CHOOSE k \in 0..(NumClasses - 1) :
    /\ \A m \in 0..(NumClasses - 1) :
         ~FLess(mem[Index(PosI(s), k, PosJ(s))], mem[Index(PosI(s), m, PosJ(s))])
    /\ \A m \in 0..(k - 1) :
         FLess(mem[Index(PosI(s), m, PosJ(s))], mem[Index(PosI(s), k, PosJ(s))])

\* noisy labels: a class index, or the ignore value when one is configured
LabelValues ==
  (0..(NumClasses - 1)) \cup (IF has_ignore_label_ THEN {ignore_label_} ELSE {})

\* ------------------------------------------------------------ Forward_cpu
\* line 82
FwdSkip(n) == has_ignore_label_ /\ n = ignore_label_

\* line 87: the bound of the class loop
FwdClassBound == Channels(bottom_shape)

\* FwdWeight with the prediction term left unweighted
FwdWeight_Unweighted(k, n, p, pv) ==
  IF is_hard_mode_
  THEN FAdd(FMul(beta_, Ind(k = n)), Ind(k = p))
  ELSE FAdd(FMul(beta_, Ind(k = n)), pv)

\* lines 88-92
FwdWeight(k, n, p, pv) ==
  IF is_hard_mode_
  THEN FAdd(FMul(beta_, Ind(k = n)), FMul(FSub(One, beta_), Ind(k = p)))
  ELSE FAdd(FMul(beta_, Ind(k = n)), FMul(FSub(One, beta_), pv))

RECURSIVE FwdClassLoop(_, _, _, _, _, _)
\* lines 87-95 for position s, from class k on
FwdClassLoop(mem, n, p, s, k, st) ==
  IF k >= FwdClassBound THEN st
  ELSE LET idx == Index(PosI(s), k, PosJ(s))
           c == FwdWeight(k, n, p, mem[idx])
       IN FwdClassLoop(mem, n, p, s, k + 1,
            [st EXCEPT !.loss = FSub(@, FMul(c, LogMax(mem[idx]))),
                       !.trace = Append(@, idx)])

\* line 96
FwdCount(count) == count + 1

RECURSIVE FwdPosLoop(_, _, _, _, _)
\* lines 78-98, from position s on
FwdPosLoop(mem, nl, pl, s, st) ==
  IF s >= outer_num_ * inner_num_ THEN st
  ELSE IF FwdSkip(nl[s]) THEN FwdPosLoop(mem, nl, pl, s + 1, st)
  ELSE LET after == FwdClassLoop(mem, nl[s], pl[s], s, 0, st)
       IN FwdPosLoop(mem, nl, pl, s + 1,
                     [after EXCEPT !.count = FwdCount(@)])

\* lines 76-98
FwdLoops(mem, nl, pl) ==
  FwdPosLoop(mem, nl, pl, 0, [loss |-> Zero, count |-> 0, trace |-> <<>>])

\* FwdDivisor dividing the unnormalised loss by the number of positions
FwdDivisor_PerPosition(norm, count) ==
  IF norm THEN count ELSE outer_num_ * inner_num_

\* lines 99-103: the divisor of the loss
FwdDivisor(norm, count) == IF norm THEN count ELSE outer_num_

\* lines 99-103: the value stored in top[0]
FwdTop(norm, loss, count) == FDiv(loss, FromInt(FwdDivisor(norm, count)))

\* lines 67-107
Forward_cpu ==
  /\ pc = "reshaped"
  /\ \E rows \in [Positions -> ProbRows],
        tail \in [ProbCount..(ProbCount + Overrun(bottom_shape, softmax_axis_) - 1)
                    -> 0..PUnit],
        nl \in [Positions -> LabelValues] :
     \E mem \in {ProbBuffer(rows, tail)} :
     \E pl \in {[s \in Positions |-> ArgMax(mem, s)]} :
     \E st \in {FwdLoops(mem, nl, pl)} :
          /\ prob_' = mem
          /\ p_label_' = pl
          /\ n_label' = nl
          /\ top_loss' = FwdTop(normalize_, st.loss, st.count)
          /\ fwd_loss' = st.loss
          /\ fwd_count' = st.count
          /\ fwd_trace' = st.trace
  /\ pc' = "forward_done"
  /\ UNCHANGED <<config, geometry, bwd_data>>

\* ----------------------------------------------------------- Backward_cpu
\* line 128
BwdIgnored(n) == has_ignore_label_ /\ n = ignore_label_

\* BwdZeroBound taken from channels() like the class loop's
BwdZeroBound_Channels == Channels(bottom_shape)

\* line 129: the bound of the zeroing loop
BwdZeroBound == ShapeAt(bottom_shape, softmax_axis_)

\* line 133: the bound of the class loop
BwdClassBound == Channels(bottom_shape)

\* lines 134-138
BwdWeight(k, n, p, pv) ==
  IF is_hard_mode_
  THEN FAdd(FMul(beta_, Ind(k = n)), FMul(FSub(One, beta_), Ind(k = p)))
  ELSE FAdd(FMul(beta_, Ind(k = n)), FMul(FSub(One, beta_), pv))

\* bottom_diff[idx] = v, recording a store past the end of the buffer
Store(st, idx, v) ==
  IF idx < ProbCount
  THEN [st EXCEPT !.diff[idx] = v, !.trace = Append(@, idx)]
  ELSE [st EXCEPT !.oob = @ \cup {idx}, !.trace = Append(@, idx)]

RECURSIVE BwdZeroLoop(_, _, _)
\* lines 129-131 for position s, from class c on
BwdZeroLoop(s, c, st) ==
  IF c >= BwdZeroBound THEN st
  ELSE BwdZeroLoop(s, c + 1, Store(st, Index(PosI(s), c, PosJ(s)), Zero))

RECURSIVE BwdClassLoop(_, _, _, _, _)
\* lines 133-140 for position s, from class k on
BwdClassLoop(n, p, s, k, st) ==
  IF k >= BwdClassBound THEN st
  ELSE LET idx == Index(PosI(s), k, PosJ(s))
           c == BwdWeight(k, n, p, prob_[idx])
           old == IF idx < ProbCount THEN st.diff[idx] ELSE Zero
       IN BwdClassLoop(n, p, s, k + 1, Store(st, idx, FSub(old, c)))

\* BwdCount incremented inside the class loop
BwdCount_PerClass(count) == count + Channels(bottom_shape)

\* line 141
BwdCount(count) == count + 1

RECURSIVE BwdPosLoop(_, _)
\* lines 124-144, from position s on
BwdPosLoop(s, st) ==
  IF s >= outer_num_ * inner_num_ THEN st
  ELSE IF BwdIgnored(n_label[s]) THEN BwdPosLoop(s + 1, BwdZeroLoop(s, 0, st))
  ELSE LET after == BwdClassLoop(n_label[s], p_label_[s], s, 0, st)
       IN BwdPosLoop(s + 1, [after EXCEPT !.count = BwdCount(@)])

\* lines 119-144: caffe_copy of prob_ into bottom_diff, then the loops
BwdLoops ==
  BwdPosLoop(0, [diff |-> [x \in 0..(ProbCount - 1) |-> prob_[x]],
                 oob |-> {}, count |-> 0, trace |-> <<>>])

\* BwdDivisor guarded against an empty count
BwdDivisor_Clamped(norm, count) ==
  IF norm THEN (IF count = 0 THEN 1 ELSE count) ELSE outer_num_

\* lines 147-151: the divisor of the loss weight
BwdDivisor(norm, count) == IF norm THEN count ELSE outer_num_

\* lines 147-151: the factor handed to caffe_scal
BwdScale(norm, lw, count) == FDiv(lw, FromInt(BwdDivisor(norm, count)))

\* BackwardFatal logging the error and returning instead of aborting
BackwardFatal_Returns ==
  /\ pc = "forward_done"
  /\ \E pd \in {<<FALSE, TRUE>>, <<TRUE, TRUE>>} : propagate_down' = pd
  /\ pc' = "backward_done"
  /\ UNCHANGED <<config, geometry, fwd_data, bottom_diff, oob_writes,
                 loss_weight, bwd_count, bwd_trace>>

\* lines 112-115: LOG(FATAL) when a label gradient is requested
BackwardFatal ==
  /\ pc = "forward_done"
  /\ \E pd \in {<<FALSE, TRUE>>, <<TRUE, TRUE>>} : propagate_down' = pd
  /\ pc' = "fatal"
  /\ UNCHANGED <<config, geometry, fwd_data, bottom_diff, oob_writes,
                 loss_weight, bwd_count, bwd_trace>>

\* lines 112-116 with both flags false: nothing to do
BackwardNoop ==
  /\ pc = "forward_done"
  /\ propagate_down' = <<FALSE, FALSE>>
  /\ pc' = "backward_done"
  /\ UNCHANGED <<config, geometry, fwd_data, bottom_diff, oob_writes,
                 loss_weight, bwd_count, bwd_trace>>

\* lines 116-152
BackwardRun ==
  /\ pc = "forward_done"
  /\ propagate_down' = <<TRUE, FALSE>>
  /\ \E lw \in LossWeights :
     \E st \in {BwdLoops} :
     \E scale \in {BwdScale(normalize_, lw, st.count)} :
          /\ loss_weight' = lw
          /\ bottom_diff' = [x \in 0..(ProbCount - 1) |-> FMul(scale, st.diff[x])]
          /\ oob_writes' = st.oob
          /\ bwd_count' = st.count
          /\ bwd_trace' = st.trace
  /\ pc' = "backward_done"
  /\ UNCHANGED <<config, geometry, fwd_data>>

Backward_cpu == BackwardFatal \/ BackwardNoop \/ BackwardRun

Next == LayerSetUp \/ Reshape \/ Forward_cpu \/ Backward_cpu

Spec == Init /\ [][Next]_vars

NextWide == LayerSetUp \/ ReshapeWide \/ Forward_cpu \/ Backward_cpu

SpecWide == Init /\ [][NextWide]_vars

\* ================================================================ claims
Classes == 0..(NumClasses - 1)
\* positions whose noisy label is not the configured ignore value
ValidPositions ==
  {s \in Positions : ~(has_ignore_label_ /\ n_label[s] = ignore_label_)}
IgnoredPositions == Positions \ ValidPositions

ForwardDone == pc = "forward_done"
BackwardDone == pc = "backward_done" /\ propagate_down = <<TRUE, FALSE>>

\* prob[i,k,j] at position s
ProbAt(s, k) == prob_[Index(PosI(s), k, PosJ(s))]
\* the gradient buffer entry (i,k,j) at position s
DiffAt(s, k) == bottom_diff[Index(PosI(s), k, PosJ(s))]

RECURSIVE FSumTo(_, _)
\* f[0] + ... + f[n-1] over Dtype values
FSumTo(f, n) == IF n = 0 THEN Zero ELSE FAdd(FSumTo(f, n - 1), f[n - 1])

\* the mixer of the design: w(k) for noisy label n, predicted label p and
\* probability pv of class k
TargetWeight(k, n, p, pv) ==
  IF is_hard_mode_
  THEN FAdd(FMul(beta_, Ind(k = n)), FMul(FSub(One, beta_), Ind(k = p)))
  ELSE FAdd(FMul(beta_, Ind(k = n)), FMul(FSub(One, beta_), pv))

\* the divisor of the design: valid positions if normalize, else outer_num
TargetDivisor ==
  IF normalize_ THEN Cardinality(ValidPositions) ELSE outer_num_

\* --------------------------------------------------------------------- C1
FwdWeightSum(s) ==
  FSumTo([k \in Classes |-> FwdWeight(k, n_label[s], p_label_[s], ProbAt(s, k))],
         NumClasses)
BwdWeightSum(s) ==
  FSumTo([k \in Classes |-> BwdWeight(k, n_label[s], p_label_[s], ProbAt(s, k))],
         NumClasses)
SliceSum(s) == FSumTo([k \in Classes |-> ProbAt(s, k)], NumClasses)

\* C1: at every non-ignored position whose noisy and predicted labels are
\* class indices and whose probability slice sums to 1, the weights w(k) of
\* Forward_cpu and of Backward_cpu sum to exactly 1 over the classes, for
\* every beta and both modes.
C1_MixedTargetSumsToOne ==
  ForwardDone =>
    \A s \in ValidPositions :
      (n_label[s] \in Classes /\ p_label_[s] \in Classes /\ SliceSum(s) = One)
        => (FwdWeightSum(s) = One /\ BwdWeightSum(s) = One)

\* hard mode, 0 < beta < 1, one position with n # p and one with n = p
C1_Witness ==
  /\ ForwardDone /\ is_hard_mode_ /\ beta_ = Fin(1, 2)
  /\ \E s, t \in ValidPositions :
       /\ n_label[s] # p_label_[s] /\ n_label[t] = p_label_[t]
       /\ FwdWeightSum(s) = One /\ FwdWeightSum(t) = One

\* --------------------------------------------------------------------- C2
\* C2: after Backward_cpu with propagate_down = [true, false], every entry
\* (i,k,j) of a non-ignored position equals
\* (prob[i,k,j] - w(k)) * loss_weight / divisor.
C2_GradientFormula ==
  BackwardDone =>
    \A s \in ValidPositions : \A k \in Classes :
      DiffAt(s, k) =
        FMul(FDiv(loss_weight, FromInt(TargetDivisor)),
             FSub(ProbAt(s, k),
                  TargetWeight(k, n_label[s], p_label_[s], ProbAt(s, k))))

\* --------------------------------------------------------------------- C3
\* C3 as stated: after Backward_cpu with propagate_down = [true, false] every
\* entry of an ignored position is exactly zero, whatever normalize is and
\* also when all positions are ignored.
C3_IgnoredGradientZero ==
  BackwardDone =>
    \A s \in IgnoredPositions : \A k \in Classes : DiffAt(s, k) = Zero

\* C3 amended: every entry of an ignored position is exactly zero unless
\* normalize is set and all positions are ignored; in that case the scale
\* factor is loss_weight / 0 and every such entry is NaN.
C3_IgnoredGradientZeroUnlessDegenerate ==
  BackwardDone =>
    \A s \in IgnoredPositions : \A k \in Classes :
      IF normalize_ /\ ValidPositions = {}
      THEN IsNaN(DiffAt(s, k))
      ELSE DiffAt(s, k) = Zero

\* an ignored and a valid position under normalize, with a non-zero gradient
\* at the valid one
C3_Witness ==
  /\ BackwardDone /\ normalize_
  /\ IgnoredPositions # {}
  /\ \E s \in ValidPositions, k \in Classes : DiffAt(s, k) # Zero
  /\ \A s \in IgnoredPositions : \A k \in Classes :
       DiffAt(s, k) = Zero /\ ProbAt(s, k) # Zero

\* --------------------------------------------------------------------- C4
\* the probability buffer with the slice of position s replaced by `row`
WithSlice(s, row) ==
  [x \in DOMAIN prob_ |->
     IF x < ProbCount /\ x \div Dim = PosI(s) /\ x % inner_num_ = PosJ(s)
     THEN Fin(row[(x % Dim) \div inner_num_], PUnit)
     ELSE prob_[x]]

\* the loops of Forward_cpu rerun on the buffer `mem`
Rerun(mem) == FwdLoops(mem, n_label, [s \in Positions |-> ArgMax(mem, s)])

\* C4: Forward_cpu skips exactly the positions whose noisy label is the
\* configured ignore value; the counter counts every other position once;
\* the loss total and the counter do not change when the probabilities (and
\* with them the predicted label) of an ignored position change; without an
\* ignore label the counter is outer_num * inner_num.
C4_IgnoredPositionsSkipped ==
  ForwardDone =>
    /\ fwd_count = Cardinality(ValidPositions)
    /\ (~has_ignore_label_ => fwd_count = outer_num_ * inner_num_)
    /\ \A s \in IgnoredPositions : \A row \in ProbRows :
         /\ Rerun(WithSlice(s, row)).loss = fwd_loss
         /\ Rerun(WithSlice(s, row)).count = fwd_count

\* --------------------------------------------------------------------- C5
\* C5: the divisor Backward_cpu scales by equals the divisor Forward_cpu
\* normalised by: the number of non-ignored positions when normalize is set,
\* outer_num when it is not.
C5_SameDivisor ==
  BackwardDone =>
    /\ BwdDivisor(normalize_, bwd_count) = FwdDivisor(normalize_, fwd_count)
    /\ FwdDivisor(normalize_, fwd_count) = TargetDivisor
    /\ top_loss = FDiv(fwd_loss, FromInt(TargetDivisor))

\* normalize set, several classes, a mix of ignored and valid positions
C5_Witness ==
  /\ BackwardDone /\ normalize_ /\ NumClasses > 1
  /\ IgnoredPositions # {} /\ ValidPositions # {}
  /\ bwd_count = fwd_count /\ bwd_count = Cardinality(ValidPositions)

\* --------------------------------------------------------------------- C6
\* C6: with k >= 1 valid positions, the loss with normalize set times k
\* equals the loss with normalize unset times outer_num, and the loss with
\* normalize unset is the accumulated total divided by outer_num; top[0]
\* holds the one the configuration selects.
C6_NormalizationSwitch ==
  (ForwardDone /\ ValidPositions # {}) =>
    LET k == Cardinality(ValidPositions)
        normalized == IF normalize_ THEN top_loss
                      ELSE FwdTop(TRUE, fwd_loss, fwd_count)
        unnormalized == IF normalize_ THEN FwdTop(FALSE, fwd_loss, fwd_count)
                        ELSE top_loss
    IN /\ FMul(normalized, FromInt(k)) = FMul(unnormalized, FromInt(outer_num_))
       /\ FMul(unnormalized, FromInt(outer_num_)) = fwd_loss

\* a non-zero loss, k different from outer_num, inner_num above 1
C6_Witness ==
  /\ ForwardDone /\ ~normalize_ /\ inner_num_ > 1
  /\ ValidPositions # {} /\ Cardinality(ValidPositions) # outer_num_
  /\ fwd_loss # Zero
  /\ FMul(top_loss, FromInt(outer_num_)) = fwd_loss

\* --------------------------------------------------------------------- C7
\* C7: a Backward_cpu call leaves the probabilities, both label buffers, the
\* loss and the configuration alone; with propagate_down[1] set it ends fatally
\* and the gradient buffer is untouched; with both flags unset it returns and
\* the gradient buffer is untouched; the gradient buffer changes only under
\* propagate_down = [true, false].
C7_BackwardWrites ==
  [][(pc = "forward_done" /\ pc' # "forward_done") =>
       /\ prob_' = prob_ /\ p_label_' = p_label_ /\ n_label' = n_label
       /\ config' = config /\ geometry' = geometry
       /\ (propagate_down'[2] =>
             pc' = "fatal" /\ bottom_diff' = bottom_diff
               /\ oob_writes' = oob_writes)
       /\ (propagate_down' = <<FALSE, FALSE>> =>
             pc' = "backward_done" /\ bottom_diff' = bottom_diff
               /\ oob_writes' = oob_writes)
       /\ (bottom_diff' # bottom_diff => propagate_down' = <<TRUE, FALSE>>)]_vars

\* the fatal end of a call that asked for both gradients
C7_Witness ==
  /\ pc = "fatal" /\ propagate_down = <<TRUE, TRUE>>
  /\ prob_ # <<>> /\ \A x \in DOMAIN bottom_diff : bottom_diff[x] = Zero

\* --------------------------------------------------------------------- C8
\* C8: with normalize set and every position ignored the loss is 0/0 and is
\* stored as NaN, and every entry of the gradient buffer, scaled by
\* loss_weight / 0, is stored as NaN; with normalize unset the same input
\* gives a loss of exactly 0.
C8_DegenerateNormalization ==
  /\ (ForwardDone /\ ValidPositions = {}) =>
       /\ fwd_loss = Zero /\ fwd_count = 0
       /\ (normalize_ => IsNaN(top_loss))
       /\ (~normalize_ => top_loss = Zero)
  /\ (BackwardDone /\ ValidPositions = {} /\ normalize_) =>
       /\ IsNaN(top_loss)
       /\ IsInf(BwdScale(normalize_, loss_weight, bwd_count))
       /\ \A x \in DOMAIN bottom_diff : IsNaN(bottom_diff[x])

\* all positions ignored, normalize set, backward run
C8_Witness ==
  /\ BackwardDone /\ normalize_ /\ ValidPositions = {}
  /\ IsNaN(top_loss) /\ \A x \in DOMAIN bottom_diff : IsNaN(bottom_diff[x])

\* --------------------------------------------------------------------- C9
\* the flat indices of the classes of position s, in class order
ClassIndices(s) == [k \in 1..NumClasses |-> Index(PosI(s), k - 1, PosJ(s))]

RECURSIVE VisitedIndices(_, _)
\* the class indices of the positions of `visit`, from position s on
VisitedIndices(visit, s) ==
  IF s >= outer_num_ * inner_num_ THEN <<>>
  ELSE (IF s \in visit THEN ClassIndices(s) ELSE <<>>)
         \o VisitedIndices(visit, s + 1)

InBuffer(trace) == \A n \in 1..Len(trace) : trace[n] \in 0..(ProbCount - 1)

\* C9: for every shape and softmax axis the class loops of Forward_cpu and
\* of both branches of Backward_cpu visit exactly the classes
\* 0..num_classes-1 of each position they handle, once each, and every flat
\* index they touch lies inside the buffer.
C9_ClassLoopsCoverClasses ==
  /\ (ForwardDone \/ BackwardDone) =>
       fwd_trace = VisitedIndices(ValidPositions, 0) /\ InBuffer(fwd_trace)
  /\ BackwardDone =>
       /\ bwd_trace = VisitedIndices(Positions, 0) /\ InBuffer(bwd_trace)
       /\ oob_writes = {}

\* -------------------------------------------------------------------- C10
RECURSIVE CrossEntropy(_, _)
\* the sum of -log(max(prob[i,label[s],j], FLT_MIN)) over the valid positions
\* from s on
CrossEntropy(label, s) ==
  IF s >= outer_num_ * inner_num_ THEN Zero
  ELSE FAdd(IF s \in ValidPositions
            THEN FNeg(LogMax(ProbAt(s, label[s]))) ELSE Zero,
            CrossEntropy(label, s + 1))

\* the gradient of cross-entropy against `label`, scaled as Backward_cpu does
OneHotGradient(label, s, k) ==
  FMul(FDiv(loss_weight, FromInt(TargetDivisor)),
       FSub(ProbAt(s, k), Ind(k = label[s])))

\* C10: with beta = 1 the weights are the one-hot of the noisy label and the
\* gradient is prob - onehot(n); with beta = 0 in hard mode the weights are
\* the one-hot of the predicted label and loss and gradient are those of
\* cross-entropy against the predicted label.
C10_BetaEndpoints ==
  BackwardDone =>
    /\ beta_ = One =>
         \A s \in ValidPositions : \A k \in Classes :
           /\ FwdWeight(k, n_label[s], p_label_[s], ProbAt(s, k)) = Ind(k = n_label[s])
           /\ BwdWeight(k, n_label[s], p_label_[s], ProbAt(s, k)) = Ind(k = n_label[s])
           /\ DiffAt(s, k) = OneHotGradient(n_label, s, k)
    /\ (beta_ = Zero /\ is_hard_mode_) =>
         /\ fwd_loss = CrossEntropy(p_label_, 0)
         /\ \A s \in ValidPositions : \A k \in Classes :
              /\ FwdWeight(k, n_label[s], p_label_[s], ProbAt(s, k)) = Ind(k = p_label_[s])
              /\ BwdWeight(k, n_label[s], p_label_[s], ProbAt(s, k)) = Ind(k = p_label_[s])
              /\ DiffAt(s, k) = OneHotGradient(p_label_, s, k)

====
